---- MODULE Spec2Model ----
(***************************************************************************)
(* The transaction pipeline of btc-demo-go: main -> NewWallet ->            *)
(* Wallet.CreateTransaction (addOutput, selectUTXOs, addInputs, GetFeeRate, *)
(* EstimateFee, change check, signTransaction, Serialize) ->                *)
(* SendTransactionPlain, together with the two pure computations the        *)
(* pipeline rests on, coin selection and fee estimation.                    *)
(*                                                                          *)
(* Three specifications share the module:                                   *)
(*   Spec        one run of the pipeline (main.go:221-243)                  *)
(*   SpecSelect  selectUTXOs applied to a UTXO list and to a re-ordering    *)
(*   SpecFee     EstimateFee applied to growing arguments                   *)
(***************************************************************************)
EXTENDS Integers, Sequences, FiniteSets, TLC

(***************************************************************************)
(* Bounds of the model.                                                     *)
(***************************************************************************)
\* the chain-data provider lists at most this many UTXOs in a pipeline run
MaxUTXOs == 2
\* UTXO values are multiples of ValueUnit, up to MaxValueUnits of them
ValueUnit == 100
MaxValueUnits == 2
\* requested amounts reach up to MaxAmountUnits * ValueUnit
MaxAmountUnits == 2
\* fee rates are the dyadic rationals k / 2^FeeRateBits, k in 0..MaxFeeRateNum
\* (dyadic rationals are exact float64 values, and so are their products with
\* the small integer vsize, so float64(vsize)*feeRate is computed exactly)
FeeRateBits == 1
MaxFeeRateNum == 2
\* SpecSelect: length of the UTXO lists handed to the selection
MaxSelUTXOs == 3
\* SpecFee: largest input / output count and fee-rate numerator
MaxCount == 4
MaxFeeArgNum == 4

(***************************************************************************)
(* Program constants.                                                       *)
(***************************************************************************)
BaseSize == 10
InputSize == 68
OutputSize == 31
\* CreateTransaction always estimates for two outputs (payment and change)
NumOutputs == 2

FeeRateDen == 2 ^ FeeRateBits

(***************************************************************************)
(* Locking scripts, abstracted to what IsSegwitScript reads: the length and *)
(* the first two bytes.                                                     *)
(***************************************************************************)
P2WPKH == [len |-> 22, b0 |-> 0, b1 |-> 20]
P2WSH == [len |-> 34, b0 |-> 0, b1 |-> 32]
P2PKH == [len |-> 25, b0 |-> 118, b1 |-> 169]
Scripts == {P2WPKH, P2WSH, P2PKH}

Values == {k * ValueUnit : k \in 0..MaxValueUnits}

\* The amount is the caller's int64 and is never validated: negative, zero and
\* positive amounts; the positive ones lie at and next to the multiples of
\* ValueUnit, so that a leftover of exactly 0 is reachable with the minimal fee
\* of 1 and so that an amount can need two UTXOs and still leave change.
Amounts ==
    {-ValueUnit, 0} \cup
    {k * ValueUnit + d : k \in 1..MaxAmountUnits, d \in {-1, 0, 1}}

FeeRateNums == 0..MaxFeeRateNum

\* helper.go UTXO: OutPoint (abstracted to an identifier), Value, PkScript
UTXO(i, v, s) == [id |-> i, value |-> v, pkScript |-> s]

\* the responses the provider can give to GET /address/{address}/utxo followed
\* by the per-UTXO GET /tx/{txid}: distinct outpoints, any values and scripts
UTXOLists(maxLen, scripts) ==
    UNION {[1..n -> (Values \X scripts)] : n \in 0..maxLen}

AsUTXOs(f) == [i \in 1..Len(f) |-> UTXO(i, f[i][1], f[i][2])]

RECURSIVE SumValues(_)
SumValues(us) ==
    IF us = <<>> THEN 0 ELSE us[1].value + SumValues(Tail(us))

\* the total value of the UTXOs of us at the indices S
RECURSIVE SumOver(_, _)
SumOver(us, S) ==
    IF S = {} THEN 0
    ELSE LET i == CHOOSE i \in S : TRUE
         IN  us[i].value + SumOver(us, S \ {i})

RECURSIVE SumOutputs(_)
SumOutputs(outs) ==
    IF outs = <<>> THEN 0 ELSE outs[1].value + SumOutputs(Tail(outs))

(***************************************************************************)
(* Pure functions of the program.                                           *)
(***************************************************************************)

\* a faulty variant of IsSegwitScript: the P2WSH case is missing
IsSegwitScriptNoP2WSH(script) ==
    script.len = 22 /\ script.b0 = 0 /\ script.b1 = 20

IsSegwitScript(script) ==
    \/ script.len = 22 /\ script.b0 = 0 /\ script.b1 = 20
    \/ script.len = 34 /\ script.b0 = 0 /\ script.b1 = 32

\* Go's float64 -> int64 conversion truncates toward zero
TruncDiv(a, b) ==
    IF a >= 0 THEN a \div b ELSE -((-a) \div b)

\* a faulty variant of EstimateFee: the output size is subtracted
EstimateFeeSubOutputs(numInputs, numOutputs, feeRateNum) ==
    LET inputSize == InputSize * numInputs
        outputSize == OutputSize * numOutputs
        vsize == BaseSize + inputSize - outputSize
    IN  TruncDiv(vsize * feeRateNum, FeeRateDen) + 1

\* feeRate = feeRateNum / FeeRateDen
EstimateFee(numInputs, numOutputs, feeRateNum) ==
    LET inputSize == InputSize * numInputs
        outputSize == OutputSize * numOutputs
        vsize == BaseSize + inputSize + outputSize
    IN  TruncDiv(vsize * feeRateNum, FeeRateDen) + 1

Bijections(n) ==
    {p \in [1..n -> 1..n] : \A i, j \in 1..n : p[i] = p[j] => i = j}

Reorderings(us) ==
    {[i \in 1..Len(us) |-> us[p[i]]] : p \in Bijections(Len(us))}

\* a faulty variant of SortedByValueDesc: the list is left in the provider's order
Unsorted(us) == {us}

\* sort.Slice(utxos, Value > Value): the sort is not stable, so every ordering
\* of the list that is descending by value is a possible result
SortedByValueDesc(us) ==
    {s \in Reorderings(us) :
        \A i, j \in 1..Len(s) : i < j => s[i].value >= s[j].value}

RECURSIVE Accumulate(_, _, _, _, _)
Accumulate(utxos, i, selected, total, amount) ==
    IF i > Len(utxos)
    THEN [selectedUTXOs |-> selected, totalValue |-> total]
    ELSE LET sel == Append(selected, utxos[i])
             tot == total + utxos[i].value
         IN  IF tot >= amount
             THEN [selectedUTXOs |-> sel, totalValue |-> tot]
             ELSE Accumulate(utxos, i + 1, sel, tot, amount)

\* a faulty variant of SelectLoop: the loop never breaks
SelectLoopNoBreak(utxos, amount) ==
    [selectedUTXOs |-> utxos, totalValue |-> SumValues(utxos)]

\* the loop of selectUTXOs over the sorted list: append, add, then test
SelectLoop(utxos, amount) == Accumulate(utxos, 1, <<>>, 0, amount)

\* selectUTXOs after GetUTXOs returned utxos: sort, then accumulate
Selections(utxos, amount) ==
    {SelectLoop(sorted, amount) : sorted \in SortedByValueDesc(utxos)}

\* a faulty variant of HasChange: a zero change is accepted
HasChangeOrZero(change) == change >= 0

\* the test of CreateTransaction that decides between change output and error
HasChange(change) == change > 0

\* wire.NewTxIn(&utxo.OutPoint, nil, nil), then the segwit case of addInputs
NewTxIn(utxo) ==
    [outpoint |-> utxo.id,
     sigScript |-> IF IsSegwitScript(utxo.pkScript) THEN "empty" ELSE "nil",
     witness |-> <<>>]

\* one iteration of signTransaction's loop, when hashing and signing succeed
SignInput(txIn, utxo) ==
    IF IsSegwitScript(utxo.pkScript)
    THEN [txIn EXCEPT !.witness = <<"sig", "pubkey">>]
    ELSE [txIn EXCEPT !.sigScript = "sig"]

(***************************************************************************)
(* State.                                                                   *)
(***************************************************************************)
VARIABLES
    \* ---- the pipeline run (Spec) ----
    pc,             \* the statement of main / CreateTransaction that runs next
    amount,         \* CreateTransaction's amount argument
    receiverOK,     \* whether receiverAddress decodes for CHAIN_CONFIG
    utxos,          \* what GetUTXOs returned to selectUTXOs
    selectedUTXOs,  \* CreateTransaction's selectedUTXOs
    totalValue,     \* CreateTransaction's totalValue
    feeRate,        \* numerator of the fee rate GetFeeRate returned
    fee,            \* CreateTransaction's fee
    changeAmount,   \* CreateTransaction's changeAmount
    tx,             \* the wire.MsgTx under construction
    err,            \* the error CreateTransaction / main ended with, "" if none
    txBytes,        \* CreateTransaction's byte result: <<>> is nil
    signing,        \* "no": signTransaction not entered; "ok" / "failed"
    listCalls,      \* GET /address/{address}/utxo requests issued
    scriptCalls,    \* the UTXOs a GET /tx/{txid} was issued for, in order
    feeCalls,       \* GET /fee-estimates requests issued
    broadcastCalls, \* POST /tx requests issued
    stages,         \* the stages that have run, in order
    \* ---- selectUTXOs as a function (SpecSelect) ----
    selPc, selIn, selAmount, selReordered, selOut, selOutReordered,
    \* ---- EstimateFee as a function (SpecFee) ----
    feeArgs, feeOut, feePrev, feeOp

pvars == <<pc, amount, receiverOK, utxos, selectedUTXOs, totalValue, feeRate,
           fee, changeAmount, tx, err, txBytes, signing, listCalls,
           scriptCalls, feeCalls, broadcastCalls, stages>>
svars == <<selPc, selIn, selAmount, selReordered, selOut, selOutReordered>>
fvars == <<feeArgs, feeOut, feePrev, feeOp>>
vars == <<pvars, svars, fvars>>

NoSelection == [selectedUTXOs |-> <<>>, totalValue |-> 0]

PipelineIdle ==
    /\ pc = "idle" /\ amount = 0 /\ receiverOK = TRUE /\ utxos = <<>>
    /\ selectedUTXOs = <<>> /\ totalValue = 0 /\ feeRate = 0 /\ fee = 0
    /\ changeAmount = 0 /\ tx = [ins |-> <<>>, outs |-> <<>>] /\ err = ""
    /\ txBytes = <<>> /\ signing = "no" /\ listCalls = 0 /\ scriptCalls = <<>>
    /\ feeCalls = 0 /\ broadcastCalls = 0 /\ stages = <<>>

SelectIdle ==
    /\ selPc = "idle" /\ selIn = <<>> /\ selAmount = 0 /\ selReordered = <<>>
    /\ selOut = NoSelection /\ selOutReordered = NoSelection

FeeIdle ==
    /\ feeArgs = [numInputs |-> 0, numOutputs |-> 0, feeRateNum |-> 0]
    /\ feeOut = 0 /\ feePrev = 0 /\ feeOp = "idle"

(***************************************************************************)
(* Spec: one run of main.                                                   *)
(***************************************************************************)
Init ==
    /\ pc = "NewWallet"
    /\ amount \in Amounts
    /\ receiverOK \in BOOLEAN
    /\ utxos = <<>> /\ selectedUTXOs = <<>> /\ totalValue = 0
    /\ feeRate = 0 /\ fee = 0 /\ changeAmount = 0
    /\ tx = [ins |-> <<>>, outs |-> <<>>]
    /\ err = "" /\ txBytes = <<>> /\ signing = "no"
    /\ listCalls = 0 /\ scriptCalls = <<>> /\ feeCalls = 0 /\ broadcastCalls = 0
    /\ stages = <<>>
    /\ SelectIdle /\ FeeIdle

\* `return nil, err` of CreateTransaction (and NewWallet's error return)
ReturnErr(e) ==
    /\ err' = e
    /\ txBytes' = <<>>
    /\ pc' = "Returned"

\* addOutput: the output is appended unless the address fails to decode
AddOutput(t, addressOK, value, script) ==
    IF addressOK
    THEN [ok |-> TRUE, tx |-> [t EXCEPT !.outs = Append(@, [value |-> value, script |-> script])]]
    ELSE [ok |-> FALSE, tx |-> t]

\* main: NewWallet(config.mnemonic); log.Fatalf on error
NewWallet ==
    /\ pc = "NewWallet"
    /\ stages' = Append(stages, "NewWallet")
    /\ \E outcome \in {"ok", "invalid mnemonic", "error deriving SegWit address"} :
          IF outcome = "ok"
          THEN pc' = "AddOutput" /\ UNCHANGED <<err, txBytes>>
          ELSE pc' = "Fatal" /\ err' = outcome /\ UNCHANGED txBytes
    /\ UNCHANGED <<amount, receiverOK, utxos, selectedUTXOs, totalValue, feeRate,
                   fee, changeAmount, tx, signing, listCalls, scriptCalls,
                   feeCalls, broadcastCalls>>
    /\ UNCHANGED <<svars, fvars>>

\* CreateTransaction: wire.NewMsgTx, then addOutput(tx, receiverAddress, amount)
AddPaymentOutput ==
    /\ pc = "AddOutput"
    /\ stages' = Append(stages, "AddOutput")
    /\ LET r == AddOutput([ins |-> <<>>, outs |-> <<>>], receiverOK, amount, "payee")
       IN  /\ tx' = r.tx
           /\ IF r.ok
              THEN pc' = "SelectUTXOs" /\ UNCHANGED <<err, txBytes>>
              ELSE ReturnErr("failed to decode address")
    /\ UNCHANGED <<amount, receiverOK, utxos, selectedUTXOs, totalValue, feeRate,
                   fee, changeAmount, signing, listCalls, scriptCalls, feeCalls,
                   broadcastCalls>>
    /\ UNCHANGED <<svars, fvars>>

\* selectUTXOs(w.address, amount), GetUTXOs and GetScriptPubKey included
SelectUTXOs ==
    /\ pc = "SelectUTXOs"
    /\ stages' = Append(stages, "SelectUTXOs")
    /\ listCalls' = listCalls + 1
    /\ \/ \* http.Get or the JSON decoding of the listing fails
          /\ \E e \in {"failed to fetch UTXOs", "failed to decode UTXOs"} :
                ReturnErr(e)
          /\ UNCHANGED <<utxos, selectedUTXOs, totalValue, scriptCalls>>
       \/ \* the listing succeeds; the script of its k-th UTXO cannot be got
          /\ \E listed \in UTXOLists(MaxUTXOs, Scripts) :
                \E k \in 1..Len(listed) :
                   scriptCalls' = scriptCalls \o [i \in 1..k |-> i]
          /\ ReturnErr("failed to get script")
          /\ UNCHANGED <<utxos, selectedUTXOs, totalValue>>
       \/ \* the listing and every script resolution succeed
          /\ \E listed \in UTXOLists(MaxUTXOs, Scripts) :
                /\ utxos' = AsUTXOs(listed)
                /\ scriptCalls' = scriptCalls \o [i \in 1..Len(listed) |-> i]
                /\ \E r \in Selections(AsUTXOs(listed), amount) :
                      /\ selectedUTXOs' = r.selectedUTXOs
                      /\ totalValue' = r.totalValue
          /\ pc' = "AddInputs"
          /\ UNCHANGED <<err, txBytes>>
    /\ UNCHANGED <<amount, receiverOK, feeRate, fee, changeAmount, tx, signing,
                   feeCalls, broadcastCalls>>
    /\ UNCHANGED <<svars, fvars>>

\* addInputs(tx, selectedUTXOs): it has no failing path
AddInputs ==
    /\ pc = "AddInputs"
    /\ stages' = Append(stages, "AddInputs")
    /\ tx' = [tx EXCEPT !.ins =
                 @ \o [i \in 1..Len(selectedUTXOs) |-> NewTxIn(selectedUTXOs[i])]]
    /\ pc' = "GetFeeRate"
    /\ UNCHANGED <<amount, receiverOK, utxos, selectedUTXOs, totalValue, feeRate,
                   fee, changeAmount, err, txBytes, signing, listCalls,
                   scriptCalls, feeCalls, broadcastCalls>>
    /\ UNCHANGED <<svars, fvars>>

\* GetFeeRate(), EstimateFee(len(selectedUTXOs), 2, feeRate), changeAmount
GetFeeRate ==
    /\ pc = "GetFeeRate"
    /\ stages' = Append(stages, "GetFeeRate")
    /\ feeCalls' = feeCalls + 1
    /\ \/ /\ \E e \in {"failed to fetch fee rate", "failed to decode fee estimates",
                       "fee estimate for key '1' not found"} :
                ReturnErr(e)
          /\ UNCHANGED <<feeRate, fee, changeAmount>>
       \/ /\ \E r \in FeeRateNums :
                /\ feeRate' = r
                /\ fee' = EstimateFee(Len(selectedUTXOs), NumOutputs, r)
                /\ changeAmount' =
                      totalValue - amount - EstimateFee(Len(selectedUTXOs), NumOutputs, r)
          /\ pc' = "AddChange"
          /\ UNCHANGED <<err, txBytes>>
    /\ UNCHANGED <<amount, receiverOK, utxos, selectedUTXOs, totalValue, tx,
                   signing, listCalls, scriptCalls, broadcastCalls>>
    /\ UNCHANGED <<svars, fvars>>

\* if changeAmount > 0 { addOutput(tx, w.address, changeAmount) } else { error }
\* (w.address is the encoding NewWallet produced for CHAIN_CONFIG: it decodes)
AddChange ==
    /\ pc = "AddChange"
    /\ stages' = Append(stages, "AddChange")
    /\ IF HasChange(changeAmount)
       THEN LET r == AddOutput(tx, TRUE, changeAmount, "change")
            IN  /\ tx' = r.tx
                /\ IF r.ok
                   THEN pc' = "Sign" /\ UNCHANGED <<err, txBytes>>
                   ELSE ReturnErr("failed to decode address")
       ELSE /\ ReturnErr("no change to send")
            /\ UNCHANGED tx
    /\ UNCHANGED <<amount, receiverOK, utxos, selectedUTXOs, totalValue, feeRate,
                   fee, changeAmount, signing, listCalls, scriptCalls, feeCalls,
                   broadcastCalls>>
    /\ UNCHANGED <<svars, fvars>>

\* the inputs of t after signTransaction's loop signed inputs 1..n
SignedUpTo(t, us, n) ==
    [t EXCEPT !.ins = [i \in 1..Len(t.ins) |->
                          IF i <= n THEN SignInput(t.ins[i], us[i]) ELSE t.ins[i]]]

\* a faulty variant of SignTransaction: the signing error is dropped
SignTransactionIgnoreErr ==
    /\ pc = "Sign"
    /\ stages' = Append(stages, "Sign")
    /\ \E failAt \in 0..Len(tx.ins) :
          IF failAt = 0
          THEN /\ tx' = SignedUpTo(tx, selectedUTXOs, Len(tx.ins))
               /\ signing' = "ok"
          ELSE /\ tx' = SignedUpTo(tx, selectedUTXOs, failAt - 1)
               /\ signing' = "failed"
    /\ pc' = "Serialize"
    /\ UNCHANGED <<err, txBytes>>
    /\ UNCHANGED <<amount, receiverOK, utxos, selectedUTXOs, totalValue, feeRate,
                   fee, changeAmount, listCalls, scriptCalls, feeCalls,
                   broadcastCalls>>
    /\ UNCHANGED <<svars, fvars>>

\* signTransaction(tx, w.privateKey, selectedUTXOs): the loop signs the inputs
\* in place and in order, and returns at the first input whose hash or
\* signature cannot be computed (failAt; 0 when every input is signed)
SignTransaction ==
    /\ pc = "Sign"
    /\ stages' = Append(stages, "Sign")
    /\ \E failAt \in 0..Len(tx.ins) :
          IF failAt = 0
          THEN /\ tx' = SignedUpTo(tx, selectedUTXOs, Len(tx.ins))
               /\ signing' = "ok"
               /\ pc' = "Serialize"
               /\ UNCHANGED <<err, txBytes>>
          ELSE /\ tx' = SignedUpTo(tx, selectedUTXOs, failAt - 1)
               /\ signing' = "failed"
               /\ ReturnErr("failed to sign input")
    /\ UNCHANGED <<amount, receiverOK, utxos, selectedUTXOs, totalValue, feeRate,
                   fee, changeAmount, listCalls, scriptCalls, feeCalls,
                   broadcastCalls>>
    /\ UNCHANGED <<svars, fvars>>

\* tx.Serialize(&buf); return buf.Bytes(), nil
Serialize ==
    /\ pc = "Serialize"
    /\ stages' = Append(stages, "Serialize")
    /\ \/ ReturnErr("failed to serialize transaction")
       \/ /\ txBytes' = <<tx>>
          /\ pc' = "Returned"
          /\ UNCHANGED err
    /\ UNCHANGED <<amount, receiverOK, utxos, selectedUTXOs, totalValue, feeRate,
                   fee, changeAmount, tx, signing, listCalls, scriptCalls,
                   feeCalls, broadcastCalls>>
    /\ UNCHANGED <<svars, fvars>>

\* a faulty variant of Broadcast: main does not look at CreateTransaction's error
BroadcastUnchecked ==
    /\ pc = "Returned"
    /\ stages' = Append(stages, "Broadcast")
    /\ broadcastCalls' = broadcastCalls + 1
    /\ pc' = "Done"
    /\ UNCHANGED <<amount, receiverOK, utxos, selectedUTXOs, totalValue, feeRate,
                   fee, changeAmount, tx, err, txBytes, signing, listCalls,
                   scriptCalls, feeCalls>>
    /\ UNCHANGED <<svars, fvars>>

\* main after CreateTransaction returned without error: SendTransactionPlain(tx);
\* a failed POST ends the process in log.Fatalf
Broadcast ==
    /\ pc = "Returned"
    /\ err = ""
    /\ stages' = Append(stages, "Broadcast")
    /\ broadcastCalls' = broadcastCalls + 1
    /\ \/ pc' = "Done" /\ UNCHANGED err
       \/ pc' = "Fatal" /\ err' = "Error sending transaction"
    /\ UNCHANGED <<amount, receiverOK, utxos, selectedUTXOs, totalValue, feeRate,
                   fee, changeAmount, tx, txBytes, signing, listCalls,
                   scriptCalls, feeCalls>>
    /\ UNCHANGED <<svars, fvars>>

\* main after CreateTransaction returned an error: log.Fatalf
Fatal ==
    /\ pc = "Returned"
    /\ err # ""
    /\ pc' = "Fatal"
    /\ UNCHANGED <<amount, receiverOK, utxos, selectedUTXOs, totalValue, feeRate,
                   fee, changeAmount, tx, err, txBytes, signing, listCalls,
                   scriptCalls, feeCalls, broadcastCalls, stages>>
    /\ UNCHANGED <<svars, fvars>>

Next ==
    \/ NewWallet
    \/ AddPaymentOutput
    \/ SelectUTXOs
    \/ AddInputs
    \/ GetFeeRate
    \/ AddChange
    \/ SignTransaction
    \/ Serialize
    \/ Broadcast
    \/ Fatal

Spec == Init /\ [][Next]_vars

(***************************************************************************)
(* SpecSelect: selectUTXOs on a list the provider returned and on a         *)
(* re-ordering of that list.                                                *)
(***************************************************************************)
InitSelect ==
    /\ selPc = "input"
    /\ selIn \in {AsUTXOs(f) : f \in UTXOLists(MaxSelUTXOs, {P2WPKH})}
    /\ selAmount \in Amounts
    /\ selReordered = <<>>
    /\ selOut = NoSelection
    /\ selOutReordered = NoSelection
    /\ PipelineIdle /\ FeeIdle

\* the provider returns the same UTXOs in another order
Reorder ==
    /\ selPc = "input"
    /\ selReordered' \in Reorderings(selIn)
    /\ selPc' = "reordered"
    /\ UNCHANGED <<selIn, selAmount, selOut, selOutReordered>>
    /\ UNCHANGED <<pvars, fvars>>

SelectOriginal ==
    /\ selPc = "reordered"
    /\ selOut' \in Selections(selIn, selAmount)
    /\ selPc' = "selected"
    /\ UNCHANGED <<selIn, selAmount, selReordered, selOutReordered>>
    /\ UNCHANGED <<pvars, fvars>>

SelectReordered ==
    /\ selPc = "selected"
    /\ selOutReordered' \in Selections(selReordered, selAmount)
    /\ selPc' = "done"
    /\ UNCHANGED <<selIn, selAmount, selReordered, selOut>>
    /\ UNCHANGED <<pvars, fvars>>

NextSelect ==
    \/ Reorder
    \/ SelectOriginal
    \/ SelectReordered

SpecSelect == InitSelect /\ [][NextSelect]_vars

(***************************************************************************)
(* SpecFee: EstimateFee on arguments that grow one at a time.               *)
(***************************************************************************)
InitFee ==
    /\ feeArgs \in [numInputs : 0..MaxCount, numOutputs : 0..MaxCount,
                    feeRateNum : 0..MaxFeeArgNum]
    /\ feeOut = 0
    /\ feePrev = 0
    /\ feeOp = "init"
    /\ PipelineIdle /\ SelectIdle

FeeOf(args) == EstimateFee(args.numInputs, args.numOutputs, args.feeRateNum)

Estimate ==
    /\ feeOp = "init"
    /\ feeOut' = FeeOf(feeArgs)
    /\ feeOp' = "estimated"
    /\ UNCHANGED <<feeArgs, feePrev>>
    /\ UNCHANGED <<pvars, svars>>

\* estimate again with one argument increased and the other two kept
Reestimate(field, max) ==
    /\ feeOp # "init"
    /\ \E v \in 0..max :
          /\ v > feeArgs[field]
          /\ feeArgs' = [feeArgs EXCEPT ![field] = v]
          /\ feeOut' = FeeOf([feeArgs EXCEPT ![field] = v])
    /\ feePrev' = feeOut
    /\ feeOp' = field
    /\ UNCHANGED <<pvars, svars>>

MoreInputs == Reestimate("numInputs", MaxCount)

MoreOutputs == Reestimate("numOutputs", MaxCount)

HigherFeeRate == Reestimate("feeRateNum", MaxFeeArgNum)

NextFee ==
    \/ Estimate
    \/ MoreInputs
    \/ MoreOutputs
    \/ HigherFeeRate

SpecFee == InitFee /\ [][NextFee]_vars

(***************************************************************************)
(* Properties of the pipeline (Spec).                                       *)
(***************************************************************************)
Ran(stage) == \E i \in 1..Len(stages) : stages[i] = stage

\* selectUTXOs has returned without error
Selected == pc = "AddInputs" \/ Ran("AddInputs")

\* GetFeeRate has returned a rate and the fee has been estimated
FeeKnown == pc = "AddChange" \/ Ran("AddChange")

WitnessType(script) == script \in {P2WPKH, P2WSH}

EmptyScript(sigScript) == sigScript \in {"nil", "empty"}

HasSignatureData(txIn) == txIn.witness # <<>> \/ ~EmptyScript(txIn.sigScript)

PartiallySigned(t) ==
    \E i, j \in 1..Len(t.ins) :
        HasSignatureData(t.ins[i]) /\ ~HasSignatureData(t.ins[j])

\* C1: once the change check has run with totalSelectedValue - amount - fee
\* <= 0 (zero as well as negative), CreateTransaction has failed with "no
\* change to send": the transaction has no change output, signTransaction was
\* not entered and no bytes are returned.
C1_NoChangeFails ==
    (Ran("AddChange") /\ totalValue - amount - fee <= 0) =>
        /\ err = "no change to send"
        /\ \A i \in 1..Len(tx.outs) : tx.outs[i].script # "change"
        /\ signing = "no"
        /\ txBytes = <<>>
        /\ broadcastCalls = 0

\* C1's case: the leftover is exactly zero and the build was rejected
C1_Witness ==
    /\ Ran("AddChange")
    /\ totalValue - amount - fee = 0
    /\ selectedUTXOs # <<>>
    /\ err = "no change to send"

\* C2: whenever CreateTransaction returned bytes, the output values plus the
\* estimated fee add up to the total of the selected UTXOs, and every output
\* value, the payment's and the change's, is strictly positive.
C2_OutputsBalancedAndPositive ==
    txBytes # <<>> =>
        /\ SumOutputs(txBytes[1].outs) + fee = totalValue
        /\ \A i \in 1..Len(txBytes[1].outs) : txBytes[1].outs[i].value > 0

\* some non-empty choice of the address's UTXOs pays amount plus the fee
\* estimated for that many inputs and leaves a positive change
Affordable ==
    \E S \in SUBSET (1..Len(utxos)) :
        /\ S # {}
        /\ SumOver(utxos, S) - amount
              - EstimateFee(Cardinality(S), NumOutputs, feeRate) > 0

\* C4: for a positive payment amount, whenever the address's UTXOs can pay the
\* amount plus the estimated fee with positive change, the selection's total
\* is at least amount plus fee and the build does not fail with "no change to
\* send".
C4_SelectionCoversAmountPlusFee ==
    (FeeKnown /\ amount > 0 /\ Affordable) =>
        /\ totalValue >= amount + fee
        /\ err # "no change to send"

\* C5: when the provider lists no UTXO, the selection is empty with total 0,
\* signTransaction is never entered, no bytes are returned, and the change
\* check ends the build with "no change to send", whatever the amount.
C5_NoUTXOsFailsBeforeSigning ==
    (Selected /\ utxos = <<>>) =>
        /\ selectedUTXOs = <<>>
        /\ totalValue = 0
        /\ signing = "no"
        /\ txBytes = <<>>
        /\ Ran("AddChange") => err = "no change to send"

\* C6: after signTransaction succeeded, an input whose UTXO has a witness-type
\* locking script carries the two-element witness <<signature, public key>>
\* and an empty unlocking script; an input whose UTXO has a legacy script
\* carries a populated unlocking script and no witness.
C6_ScriptTypeDispatch ==
    signing = "ok" =>
        /\ Len(tx.ins) = Len(selectedUTXOs)
        /\ \A i \in 1..Len(tx.ins) :
              IF WitnessType(selectedUTXOs[i].pkScript)
              THEN /\ tx.ins[i].witness = <<"sig", "pubkey">>
                   /\ EmptyScript(tx.ins[i].sigScript)
              ELSE /\ tx.ins[i].sigScript = "sig"
                   /\ tx.ins[i].witness = <<>>

\* C6's case: a signed transaction spending a P2WSH and a legacy output
C6_Witness ==
    /\ signing = "ok"
    /\ \E i, j \in 1..Len(tx.ins) :
          /\ selectedUTXOs[i].pkScript = P2WSH
          /\ selectedUTXOs[j].pkScript = P2PKH

\* C7 as stated: after signTransaction failed, the transaction is not left
\* with some inputs carrying signature data and others not.
C7_NoPartialSigning == signing = "failed" => ~PartiallySigned(tx)

\* C7 as amended: after signTransaction failed, CreateTransaction has returned
\* the signing error and no bytes; the transaction is never serialized or
\* broadcast.
C7_FailedSigningReturnsNothing ==
    signing = "failed" =>
        /\ err = "failed to sign input"
        /\ txBytes = <<>>
        /\ ~Ran("Serialize")
        /\ broadcastCalls = 0

\* C7's case: signing failed at a later input, after an earlier one was signed
C7_Witness ==
    /\ signing = "failed"
    /\ PartiallySigned(tx)
    /\ pc = "Fatal"

StageOrder ==
    <<"NewWallet", "AddOutput", "SelectUTXOs", "AddInputs", "GetFeeRate",
      "AddChange", "Sign", "Serialize", "Broadcast">>

\* the stage each error comes from
StageOfError(e) ==
    CASE e \in {"invalid mnemonic", "error deriving SegWit address"} -> "NewWallet"
      [] e = "failed to decode address" -> "AddOutput"
      [] e \in {"failed to fetch UTXOs", "failed to decode UTXOs",
                "failed to get script"} -> "SelectUTXOs"
      [] e \in {"failed to fetch fee rate", "failed to decode fee estimates",
                "fee estimate for key '1' not found"} -> "GetFeeRate"
      [] e = "no change to send" -> "AddChange"
      [] e = "failed to sign input" -> "Sign"
      [] e = "failed to serialize transaction" -> "Serialize"
      [] e = "Error sending transaction" -> "Broadcast"

\* C10: every external call is issued at most once (the listing, the script
\* resolution of each UTXO, the fee-rate fetch, the broadcast); the stages run
\* once each in pipeline order and the stage that failed is the last one that
\* ran; a broadcast is issued only after CreateTransaction returned, without
\* error, the bytes of a transaction whose inputs are all signed.
C10_FailFastNoRetries ==
    /\ listCalls <= 1 /\ feeCalls <= 1 /\ broadcastCalls <= 1
    /\ \A i, j \in 1..Len(scriptCalls) : scriptCalls[i] = scriptCalls[j] => i = j
    /\ Len(stages) <= Len(StageOrder)
    /\ \A i \in 1..Len(stages) : stages[i] = StageOrder[i]
    /\ err # "" => stages[Len(stages)] = StageOfError(err)
    /\ broadcastCalls > 0 =>
          /\ err \in {"", "Error sending transaction"}
          /\ Ran("Serialize")
          /\ signing = "ok"
          /\ txBytes # <<>>
          /\ \A i \in 1..Len(txBytes[1].ins) : HasSignatureData(txBytes[1].ins[i])

\* C10's case: a run that resolved two scripts, built, signed and broadcast
C10_Witness ==
    /\ pc = "Done"
    /\ broadcastCalls = 1
    /\ Len(scriptCalls) = 2
    /\ Len(txBytes[1].ins) = 2

(***************************************************************************)
(* Properties of selectUTXOs (SpecSelect).                                  *)
(***************************************************************************)
ValuesOf(us) == [i \in 1..Len(us) |-> us[i].value]

PrefixSum(us, k) == SumValues(SubSeq(us, 1, k))

\* some subset of the UTXOs has a total value of at least target
Feasible(us, target) ==
    \E S \in SUBSET (1..Len(us)) : SumOver(us, S) >= target

\* sel lists distinct UTXOs of us by descending value, and no UTXO left out
\* is worth more than a selected one: sel is a prefix of us sorted descending
DescendingPrefix(sel, us) ==
    /\ \A i \in 1..Len(sel) : \E k \in 1..Len(us) : us[k] = sel[i]
    /\ \A i, j \in 1..Len(sel) : i < j =>
          sel[i].id # sel[j].id /\ sel[i].value >= sel[j].value
    /\ \A k \in 1..Len(us) :
          (\A i \in 1..Len(sel) : sel[i] # us[k]) =>
              \A i \in 1..Len(sel) : sel[i].value >= us[k].value

SelectionDone == selPc \in {"selected", "done"}

\* C3 as stated: the returned total is the sum of the selected values, the
\* selection is a prefix of the UTXOs sorted by descending value, and if some
\* subset reaches the target the selection reaches it and no shorter prefix
\* (the empty one included) does.
C3_ShortestPrefix ==
    SelectionDone =>
        LET sel == selOut.selectedUTXOs
        IN  /\ selOut.totalValue = SumValues(sel)
            /\ DescendingPrefix(sel, selIn)
            /\ Feasible(selIn, selAmount) =>
                  /\ selOut.totalValue >= selAmount
                  /\ \A k \in 0..(Len(sel) - 1) : PrefixSum(sel, k) < selAmount

\* C3 as amended: as stated, but the selection is the shortest non-empty
\* prefix that reaches the target: selectUTXOs takes the first UTXO before it
\* tests the total, so a non-empty list never yields an empty selection.
C3_ShortestNonEmptyPrefix ==
    SelectionDone =>
        LET sel == selOut.selectedUTXOs
        IN  /\ selOut.totalValue = SumValues(sel)
            /\ DescendingPrefix(sel, selIn)
            /\ selIn # <<>> => sel # <<>>
            /\ Feasible(selIn, selAmount) =>
                  /\ selOut.totalValue >= selAmount
                  /\ \A k \in 1..(Len(sel) - 1) : PrefixSum(sel, k) < selAmount

\* C3's case: a feasible target that takes two of three UTXOs
C3_Witness ==
    /\ SelectionDone
    /\ Len(selIn) = 3
    /\ Len(selOut.selectedUTXOs) = 2
    /\ selOut.totalValue >= selAmount
    /\ selIn[1].value < selIn[3].value

\* C9 as stated: a list and any re-ordering of it yield the same selection,
\* the same UTXOs in the same order with the same total.
C9_SameSelection ==
    (selPc = "done" /\ selReordered # selIn) => selOut = selOutReordered

\* C9 as amended: a list and any re-ordering of it yield selections with the
\* same sequence of values and the same total; which of several UTXOs of
\* equal value is selected is not determined by the values.
C9_SameValues ==
    selPc = "done" =>
        /\ ValuesOf(selOut.selectedUTXOs) = ValuesOf(selOutReordered.selectedUTXOs)
        /\ selOut.totalValue = selOutReordered.totalValue

\* C9's case: two UTXOs of equal value, listed in two orders, and the two
\* selections pick different ones
C9_Witness ==
    /\ selPc = "done"
    /\ selReordered # selIn
    /\ selOut.selectedUTXOs # selOutReordered.selectedUTXOs
    /\ selOut.selectedUTXOs # <<>>
    /\ Len(selOut.selectedUTXOs) < Len(selIn)

(***************************************************************************)
(* Properties of EstimateFee (SpecFee).                                     *)
(***************************************************************************)
\* C8: the fee is (10 + 68*numInputs + 31*numOutputs) * feeRate converted to
\* an integer, plus 1, and estimating again with numInputs, numOutputs or
\* feeRate increased (the other two kept) never gives a smaller fee.
C8_FeeMonotonic ==
    feeOp # "init" =>
        LET scaled == (10 + 68 * feeArgs.numInputs + 31 * feeArgs.numOutputs)
                          * feeArgs.feeRateNum
        IN  /\ FeeRateDen * (feeOut - 1) <= scaled
            /\ scaled < FeeRateDen * feeOut
            /\ feeOp # "estimated" => feeOut >= feePrev

\* C8's case: a higher fee rate raised the fee, and so did another input
C8_Witness ==
    \/ feeOp = "feeRateNum" /\ feeOut > feePrev /\ feeArgs.numInputs > 0
    \/ feeOp = "numInputs" /\ feeOut > feePrev /\ feeArgs.numOutputs > 0

====
